---------------------------- MODULE Spec2Model ----------------------------
(***************************************************************************)
(* Knights-and-Knaves puzzle generator and solver (src/Puzzle_Generator.py) *)
(* as a state machine.                                                     *)
(*                                                                         *)
(* Objects are modelled by handles: an islander is a natural number (its   *)
(* creation index), with its class in align and its mutable name attribute *)
(* in name; a statement is a record carrying a unique sid, so that the     *)
(* identity tests of the code ("is", and "in" on objects without __eq__)   *)
(* compare handles.                                                        *)
(***************************************************************************)
EXTENDS Integers, Sequences, FiniteSets, TLC

VARIABLES
    align,      \* align[i]: class of islander i, "knight" or "knave"
    name,       \* name[i]: current value of islander i's name attribute
    made,       \* number of Statement objects constructed so far
    simple,     \* the SimplePuzzle objects constructed so far
    cp,         \* the CompoundPuzzle object
    gen,        \* the calling program: a preset recipe or a free client
    solver,     \* the current Solver object
    runs        \* results of the solver runs that have finished

vars == <<align, name, made, simple, cp, gen, solver, runs>>

----------------------------------------------------------------------------
(* Bounds *)

\* At most this many leading entries of the remaining name pool are
\* candidates of one random pop.
MaxDraw == 1
\* A shuffled islander list has at most this many pairs of islanders of one
\* class standing against their creation order.
MaxInversions == 0
\* Statement lists longer than this are left in construction order by
\* shuffle_statements.
MaxShuffle == 1
\* Largest islander count the counting client passes to SimplePuzzle.
MaxCount == 5
\* Islanders the building client creates in all.
MaxIslanders == 3
\* Completion and join calls the building client makes.
MaxOps == 3
\* Islanders the solving client creates in all.
MaxSolveIslanders == 3
\* Completion and join calls the solving client makes.
MaxSolveOps == 2
\* Solver objects the solving client constructs.
MaxRuns == 2

----------------------------------------------------------------------------
(* Name set *)

original_name_set ==
    << "Elnuman", "Solomon", "Bram", "Sidy", "Drake", "Munzir", "Ajay",
       "Lebron", "Curry", "Bronny", "Flight", "Cash", "Draymond", "Klay",
       "Andrew", "Omar", "DJ Khalid" >>

name_set == original_name_set

\* A name is its base string and the numeric suffixes appended to it:
\* "Ajay_1_2" is [base |-> "Ajay", suffix |-> <<1, 2>>].
PlainName(str) == [base |-> str, suffix |-> <<>>]

\* f"{name}_{k}"
SuffixName(nm, k) == [nm EXCEPT !.suffix = Append(@, k)]

----------------------------------------------------------------------------
(* Random utilities: each is the set of its possible results *)

random_int(n) == 0 .. (n - 1)

random_range(lo, hi) == lo .. hi

random_element(lst) == {lst[i] : i \in DOMAIN lst}

Perms(lst) ==
    IF lst = <<>> THEN {<<>>}
    ELSE {[i \in DOMAIN lst |-> lst[p[i]]] : p \in Permutations(DOMAIN lst)}

\* Pairs of positions of lst holding islanders of one class that the
\* permutation p turns around.
Inversions(lst, p, al) ==
    Cardinality({pr \in (DOMAIN lst) \X (DOMAIN lst) :
                    /\ pr[1] < pr[2]
                    /\ p[pr[1]] > p[pr[2]]
                    /\ al[lst[p[pr[1]]]] = al[lst[p[pr[2]]]]})

\* shuffle of an islander list. Two islanders of one class and one puzzle
\* differ in their names and their rank in the knights or knaves list only.
shuffle(lst, al) ==
    IF lst = <<>> THEN {<<>>}
    ELSE {[i \in DOMAIN lst |-> lst[p[i]]] :
            p \in {q \in Permutations(DOMAIN lst) :
                      Inversions(lst, q, al) <= MaxInversions}}

\* shuffle of a statement list
shuffle_statements(lst) == IF Len(lst) <= MaxShuffle THEN Perms(lst) ELSE {lst}

----------------------------------------------------------------------------
(* Array / list utilities *)

Range(lst) == {lst[i] : i \in DOMAIN lst}

InList(e, lst) == \E i \in DOMAIN lst : lst[i] = e

remove_element(lst, e) == SelectSeq(lst, LAMBDA x : x # e)

arrays_equivalent(a, b) ==
    Len(a) = Len(b) /\ \A i \in DOMAIN a : InList(a[i], b)

\* add_unique without the membership test.
add_always(lst, e) == Append(lst, e)

add_unique(lst, e) == IF ~InList(e, lst) THEN Append(lst, e) ELSE lst

RECURSIVE add_all_unique(_, _)
add_all_unique(a, b) ==
    IF b = <<>> THEN a
    ELSE add_all_unique(IF ~InList(Head(b), a) THEN Append(a, Head(b)) ELSE a,
                        Tail(b))

----------------------------------------------------------------------------
(* Islanders and statements *)

is_knight(al, i) == al[i] = "knight"

\* Statement.__init__: source, target and the text built at construction.
\* The text is the target's name at that moment and what is said of it; the
\* synonymous wordings of one kind are one value.
Statement(kind, src, tgt, says, nm, sid) ==
    [sid |-> sid, kind |-> kind, source |-> src, target |-> tgt,
     text |-> [tname |-> nm[tgt], says |-> says]]

Accusation(src, tgt, al, nm, sid) ==
    Statement("Accusation", src, tgt, "knave", nm, sid)

Affirmation(src, tgt, al, nm, sid) ==
    Statement("Affirmation", src, tgt, "knight", nm, sid)

Same(src, tgt, al, nm, sid) ==
    Statement("Same", src, tgt, "same", nm, sid)

Different(src, tgt, al, nm, sid) ==
    Statement("Different", src, tgt, "different", nm, sid)

Disjoint(src, tgt, al, nm, sid) ==
    Statement("Disjoint", src, tgt,
              IF is_knight(al, tgt) THEN "knight" ELSE "knave", nm, sid)

Joint(src, tgt, al, nm, sid) ==
    Statement("Joint", src, tgt,
              IF is_knight(al, tgt) THEN "knave" ELSE "knight", nm, sid)

IsTypeStatement(s) == s.kind \in {"Accusation", "Affirmation"}

\* match_statement_for that makes the statement statement_for makes.
match_statement_for_plain(src, tgt, al, nm, sid) ==
    IF is_knight(al, src) = is_knight(al, tgt)
    THEN Affirmation(src, tgt, al, nm, sid)
    ELSE Accusation(src, tgt, al, nm, sid)

match_statement_for(src, tgt, al, nm, sid) ==
    IF is_knight(al, tgt) THEN Same(src, tgt, al, nm, sid)
    ELSE Different(src, tgt, al, nm, sid)

\* Knave.statement_for that says what a knight would say.
Knave_statement_for_truthful(src, tgt, al, nm, sid) ==
    IF is_knight(al, tgt) THEN Affirmation(src, tgt, al, nm, sid)
    ELSE Accusation(src, tgt, al, nm, sid)

Knave_statement_for(src, tgt, al, nm, sid) ==
    IF is_knight(al, tgt) THEN Accusation(src, tgt, al, nm, sid)
    ELSE Affirmation(src, tgt, al, nm, sid)

Knight_statement_for(src, tgt, al, nm, sid) ==
    IF is_knight(al, tgt) THEN Affirmation(src, tgt, al, nm, sid)
    ELSE Accusation(src, tgt, al, nm, sid)

\* src.statement_for(tgt): dispatch on the class of src
statement_for(src, tgt, al, nm, sid) ==
    IF is_knight(al, src) THEN Knight_statement_for(src, tgt, al, nm, sid)
    ELSE Knave_statement_for(src, tgt, al, nm, sid)

Knave_compound_statement_for(src, tgt, al, nm, sid) ==
    Joint(src, tgt, al, nm, sid)

Knight_compound_statement_for(src, tgt, al, nm, sid) ==
    Disjoint(src, tgt, al, nm, sid)

\* src.compound_statement_for(tgt): dispatch on the class of src
compound_statement_for(src, tgt, al, nm, sid) ==
    IF is_knight(al, src) THEN Knight_compound_statement_for(src, tgt, al, nm, sid)
    ELSE Knave_compound_statement_for(src, tgt, al, nm, sid)

----------------------------------------------------------------------------
(* Graph utilities *)

RECURSIVE all_sources_and_targets_from(_, _, _, _)
all_sources_and_targets_from(islander, stmts, i, res) ==
    IF i > Len(stmts) THEN res
    ELSE LET s == stmts[i]
             r1 == IF s.source = islander THEN Append(res, s.target) ELSE res
             r2 == IF s.target = islander THEN Append(r1, s.source) ELSE r1
         IN all_sources_and_targets_from(islander, stmts, i + 1, r2)

all_sources_and_targets(islander, stmts) ==
    all_sources_and_targets_from(islander, stmts, 1, <<islander>>)

\* The result list of all_reachable as the set of its members (the list is
\* built from a Python set, whose iteration order is not fixed); seen is the
\* set of the members of the seen list.
RECURSIVE all_reachable(_, _, _)
all_reachable(islander, stmts, seen) ==
    LET reach == seen \cup Range(all_sources_and_targets(islander, stmts))
    IN IF reach = seen THEN seen
       ELSE reach \cup UNION {all_reachable(nbr, stmts, reach) : nbr \in reach}

\* The islanders that can stand first in all_reachable(islander, stmts, []):
\* its list starts with list(reach), reach being the islander and its direct
\* neighbours, in the set's iteration order.
reachable_heads(islander, stmts) ==
    Range(all_sources_and_targets(islander, stmts))

\* connected_sets: each component is [members, heads], heads being the
\* islanders that can be its element 0; seenSet and seenLen are the members
\* and the length of the seen list.
RECURSIVE connected_sets_from(_, _, _, _, _, _)
connected_sets_from(islanders, all_islanders, stmts, sets, seenSet, seenLen) ==
    LET comp == all_reachable(islanders[1], stmts, {})
        sets2 == Append(sets, [members |-> comp,
                               heads |-> reachable_heads(islanders[1], stmts)])
        seen2Set == seenSet \cup comp
        seen2Len == seenLen + Cardinality(comp)
    IN IF Len(all_islanders) = seen2Len
          /\ \A i \in DOMAIN all_islanders : all_islanders[i] \in seen2Set
       THEN sets2
       ELSE connected_sets_from(SelectSeq(islanders, LAMBDA x : x \notin seen2Set),
                                all_islanders, stmts, sets2, seen2Set, seen2Len)

\* connected_sets that takes the first component to hold every islander.
connected_sets_single(islanders, all_islanders, stmts) ==
    << [members |-> Range(all_islanders),
        heads |-> reachable_heads(islanders[1], stmts)] >>

connected_sets(islanders, all_islanders, stmts) ==
    connected_sets_from(islanders, all_islanders, stmts, <<>>, {}, 0)

prune_statements(stmts) ==
    LET extras == {t \in Range(stmts) :
                      \E s \in Range(stmts) :
                          /\ t.sid # s.sid
                          /\ t.source = s.target
                          /\ t.target = s.source}
    IN SelectSeq(stmts, LAMBDA s : s \notin extras)

Links(s, a, b) ==
    (s.source = a \/ s.source = b) /\ (s.target = a \/ s.target = b)

\* remove_statement_with that removes every statement touching a or b.
remove_statement_with_either(a, b, stmts) ==
    SelectSeq(stmts, LAMBDA x : x.source \notin {a, b} /\ x.target \notin {a, b})

remove_statement_with(a, b, stmts) ==
    IF \E i \in DOMAIN stmts : Links(stmts[i], a, b)
    THEN LET i == CHOOSE i \in DOMAIN stmts :
                      /\ Links(stmts[i], a, b)
                      /\ \A j \in 1 .. (i - 1) : ~Links(stmts[j], a, b)
         IN SelectSeq(stmts, LAMBDA x : x.sid # stmts[i].sid)
    ELSE stmts

----------------------------------------------------------------------------
(* Puzzle builder (simple) *)

\* liar_counts without the branch for four islanders and more.
liar_counts_small(count) == IF count = 1 THEN {1} ELSE random_int(count)

\* The knave count SimplePuzzle.__init__ may draw for count islanders.
liar_counts(count) ==
    IF count = 1 THEN {1}
    ELSE IF count < 4 THEN random_int(count)
    ELSE random_range((count \div 2) - 1, count - 2)

RemoveAt(lst, i) == SubSeq(lst, 1, i - 1) \o SubSeq(lst, i + 1, Len(lst))

\* k times self.name_set.pop(random_int(len(self.name_set))): the names
\* drawn, in drawing order, and the pool left.
RECURSIVE pop_names(_, _, _)
pop_names(pool, k, drawn) ==
    IF k = 0 THEN {[drawn |-> drawn, pool |-> pool]}
    ELSE UNION {pop_names(RemoveAt(pool, i + 1), k - 1, Append(drawn, pool[i + 1])) :
                    i \in {j \in random_int(Len(pool)) : j < MaxDraw}}

\* The loop of generate_statements over the targets: prev is the previous
\* source, 0 for None; statement i gets sid sid0 + i.
RECURSIVE raw_statements(_, _, _, _, _, _, _)
raw_statements(islanders, i, prev, stmts, al, nm, sid0) ==
    IF i > Len(islanders) THEN {stmts}
    ELSE LET tgt == islanders[i]
             others == remove_element(islanders, tgt)
             rem0 == IF prev # 0 THEN remove_element(others, prev) ELSE others
             rem == IF prev # 0 /\ rem0 = <<>> THEN others ELSE rem0
         IN UNION {raw_statements(islanders, i + 1, src,
                                  Append(stmts, statement_for(src, tgt, al, nm, sid0 + i)),
                                  al, nm, sid0) :
                       src \in random_element(rem)}

\* The bridging loop of generate_statements over sets[1:].
RECURSIVE bridge_statements(_, _, _, _, _, _, _)
bridge_statements(sets, k, joiner, stmts, al, nm, sid) ==
    IF k > Len(sets) THEN {[stmts |-> stmts, made |-> sid]}
    ELSE UNION {bridge_statements(sets, k + 1, joiner,
                                  Append(stmts, statement_for(joinee, joiner, al, nm, sid + 1)),
                                  al, nm, sid + 1) :
                    joinee \in sets[k].heads}

\* generate_statements: the statement lists it may return, each with the
\* number of statements constructed so far.
generate_statements(islanders, al, nm, sid0) ==
    IF Len(islanders) < 2 THEN {[stmts |-> <<>>, made |-> sid0]}
    ELSE UNION {
        LET stmts == prune_statements(raw)
            sets == connected_sets(islanders, islanders, stmts)
            bridged ==
                IF Len(sets) > 1
                THEN UNION {bridge_statements(sets, 2, joiner, stmts, al, nm,
                                              sid0 + Len(islanders)) :
                                joiner \in sets[1].heads}
                ELSE {[stmts |-> stmts, made |-> sid0 + Len(islanders)]}
        IN UNION {{[stmts |-> sh, made |-> b.made] :
                       sh \in shuffle_statements(b.stmts)} : b \in bridged}
        : raw \in raw_statements(islanders, 1, 0, <<>>, al, nm, sid0)}

\* The sources and targets complete_with_match and complete_with_compound
\* may pick in puzzle p.
completion_pairs(p) ==
    {<<src, tgt>> \in Range(p.islanders) \X Range(p.islanders) :
        LET rem == remove_element(p.islanders, src)
            nbrs == all_sources_and_targets(src, p.statements)
            left == SelectSeq(rem, LAMBDA x : ~InList(x, nbrs))
        IN tgt \in random_element(IF left # <<>> THEN left ELSE rem)}

----------------------------------------------------------------------------
(* Puzzle builder (compound) *)

RECURSIVE ensure_unique_names_from(_, _, _, _)
ensure_unique_names_from(islanders, i, nm, seen) ==
    IF i > Len(islanders) THEN nm
    ELSE LET n == nm[islanders[i]]
         IN IF n \in DOMAIN seen
            THEN LET seen2 == [seen EXCEPT ![n] = @ + 1]
                 IN ensure_unique_names_from(
                        islanders, i + 1,
                        [nm EXCEPT ![islanders[i]] = SuffixName(n, seen2[n])],
                        seen2)
            ELSE ensure_unique_names_from(islanders, i + 1, nm, (n :> 0) @@ seen)

\* The name attributes after ensure_unique_names over islanders.
ensure_unique_names(islanders, nm) ==
    ensure_unique_names_from(islanders, 1, nm, [x \in {} |-> 0])

\* join that merges other's knights into both lists.
joined_mixed(c, other, idx) ==
    [puzzles |-> Append(c.puzzles, idx),
     knights |-> add_all_unique(c.knights, other.knights),
     knaves |-> add_all_unique(add_all_unique(c.knaves, other.knaves), other.knights),
     islanders |-> add_all_unique(c.islanders, other.islanders),
     statements |-> add_all_unique(c.statements, other.statements)]

\* The compound after the list merges of join(other); idx is other's handle.
joined(c, other, idx) ==
    [puzzles |-> Append(c.puzzles, idx),
     knights |-> add_all_unique(c.knights, other.knights),
     knaves |-> add_all_unique(c.knaves, other.knaves),
     islanders |-> add_all_unique(c.islanders, other.islanders),
     statements |-> add_all_unique(c.statements, other.statements)]

----------------------------------------------------------------------------
(* Solver *)

NoPuzzle == [kind |-> "none", idx |-> 0]

\* No Solver object has been constructed.
NoSolver ==
    [pc |-> "none", puzzle |-> NoPuzzle, reasoning |-> <<>>,
     type_statements |-> <<>>, knights |-> <<>>, knaves |-> <<>>,
     remaining |-> <<>>, next_rem |-> <<>>, i |-> 0, printed |-> "nothing"]

\* Solver.__init__, with the control state at the start of solve.
NewSolver(ref) == [NoSolver EXCEPT !.pc = "pass1", !.puzzle = ref, !.i = 1]

\* A line of the reasoning log: the statement it is about and the known
\* islander it starts from (0 for a statement that needs none).
Reasoning(s, known) == <<s.sid, known>>

\* The filing by is_knight with the two lists exchanged.
add_by_type_exchanged(sv, who, al) ==
    IF is_knight(al, who)
    THEN [sv EXCEPT !.knaves = add_unique(@, who)]
    ELSE [sv EXCEPT !.knights = add_unique(@, who)]

add_by_type(sv, who, al) ==
    IF is_knight(al, who)
    THEN [sv EXCEPT !.knights = add_unique(@, who)]
    ELSE [sv EXCEPT !.knaves = add_unique(@, who)]

TypeStatement_done(s, sv) ==
    /\ (InList(s.source, sv.knights) \/ InList(s.source, sv.knaves))
    /\ (InList(s.target, sv.knights) \/ InList(s.target, sv.knaves))

TypeStatement_process(s, known, sv, al) ==
    IF known = s.source \/ known = s.target
    THEN LET unknown == IF known = s.source THEN s.target ELSE s.source
         IN add_by_type([sv EXCEPT !.reasoning = Append(@, Reasoning(s, known))],
                        unknown, al)
    ELSE sv

\* Same.solve with the target filed as Different.solve files it.
Same_solve_as_knave(s, sv, al) ==
    [sv EXCEPT !.reasoning = Append(@, Reasoning(s, 0)),
               !.knaves = add_unique(@, s.target)]

Same_solve(s, sv, al) ==
    [sv EXCEPT !.reasoning = Append(@, Reasoning(s, 0)),
               !.knights = add_unique(@, s.target)]

Different_solve(s, sv, al) ==
    [sv EXCEPT !.reasoning = Append(@, Reasoning(s, 0)),
               !.knaves = add_unique(@, s.target)]

Disjoint_solve(s, sv, al) ==
    add_by_type([sv EXCEPT !.reasoning = Append(@, Reasoning(s, 0)),
                           !.knights = add_unique(@, s.source)],
                s.target, al)

\* Joint.solve that files the source as Disjoint.solve files it.
Joint_solve_as_knight(s, sv, al) ==
    add_by_type([sv EXCEPT !.reasoning = Append(@, Reasoning(s, 0)),
                           !.knights = add_unique(@, s.source)],
                s.target, al)

Joint_solve(s, sv, al) ==
    add_by_type([sv EXCEPT !.reasoning = Append(@, Reasoning(s, 0)),
                           !.knaves = add_unique(@, s.source)],
                s.target, al)

\* stmt.solve(self) for a statement that is no TypeStatement
Statement_solve(s, sv, al) ==
    CASE s.kind = "Same" -> Same_solve(s, sv, al)
      [] s.kind = "Different" -> Different_solve(s, sv, al)
      [] s.kind = "Disjoint" -> Disjoint_solve(s, sv, al)
      [] s.kind = "Joint" -> Joint_solve(s, sv, al)

\* Pass 1 in which a statement that a finished run has applied is spent.
solve_pass1_spent(s, sv, al) ==
    IF runs # <<>> THEN sv
    ELSE IF ~IsTypeStatement(s) THEN Statement_solve(s, sv, al)
    ELSE [sv EXCEPT !.type_statements = Append(@, s)]

\* One iteration of the loop of pass 1 of solve.
solve_pass1(s, sv, al) ==
    IF ~IsTypeStatement(s) THEN Statement_solve(s, sv, al)
    ELSE [sv EXCEPT !.type_statements = Append(@, s)]

\* for k in self.knaves + self.knights: s.process(k, self); break when done
RECURSIVE solve_known(_, _, _, _, _)
solve_known(s, known, k, sv, al) ==
    IF k > Len(known) THEN sv
    ELSE LET sv2 == TypeStatement_process(s, known[k], sv, al)
         IN IF TypeStatement_done(s, sv2) THEN sv2
            ELSE solve_known(s, known, k + 1, sv2, al)

\* One iteration of the loop of pass 2 of solve over remaining.
solve_pass2(s, sv, al) ==
    IF TypeStatement_done(s, sv) THEN sv
    ELSE LET sv2 == solve_known(s, sv.knaves \o sv.knights, 1, sv, al)
         IN IF ~TypeStatement_done(s, sv2)
            THEN [sv2 EXCEPT !.next_rem = Append(@, s)]
            ELSE sv2

\* Solver.validate: what it prints.
validate(sv, puzzle) ==
    IF arrays_equivalent(sv.knights, puzzle.knights)
       /\ arrays_equivalent(sv.knaves, puzzle.knaves)
    THEN "correct" ELSE "mismatch"

\* One step of Solver.solve on puzzle.
solve_step(sv, puzzle, al) ==
    CASE sv.pc = "pass1" /\ sv.i <= Len(puzzle.statements) ->
            [solve_pass1(puzzle.statements[sv.i], sv, al) EXCEPT !.i = sv.i + 1]
      [] sv.pc = "pass1" /\ sv.i > Len(puzzle.statements) ->
            [sv EXCEPT !.pc = "while", !.remaining = sv.type_statements, !.i = 0]
      [] sv.pc = "while" /\ sv.remaining # <<>> ->
            [sv EXCEPT !.pc = "pass2", !.next_rem = <<>>, !.i = 1]
      [] sv.pc = "while" /\ sv.remaining = <<>> ->
            [sv EXCEPT !.pc = "validate"]
      [] sv.pc = "pass2" /\ sv.i <= Len(sv.remaining) ->
            [solve_pass2(sv.remaining[sv.i], sv, al) EXCEPT !.i = sv.i + 1]
      [] sv.pc = "pass2" /\ sv.i > Len(sv.remaining) ->
            [sv EXCEPT !.pc = "while", !.remaining = sv.next_rem,
                       !.next_rem = <<>>, !.i = 0]
      [] sv.pc = "validate" ->
            [sv EXCEPT !.pc = "done", !.printed = validate(sv, puzzle)]

\* A pass of the while loop has ended with every pending statement still
\* pending: the next pass starts from the same solver state.
Spinning(sv) ==
    sv.pc = "pass2" /\ sv.i > Len(sv.remaining) /\ sv.next_rem = sv.remaining

\* Solver.solve run from sv until it returns, or until a pass of the while
\* loop has changed nothing.
RECURSIVE solve(_, _, _)
solve(sv, puzzle, al) ==
    IF sv.pc = "done" \/ Spinning(sv) THEN sv
    ELSE solve(solve_step(sv, puzzle, al), puzzle, al)

----------------------------------------------------------------------------
(* State *)

\* CompoundPuzzle.__init__
EmptyCompound ==
    [puzzles |-> <<>>, knights |-> <<>>, knaves |-> <<>>,
     islanders |-> <<>>, statements |-> <<>>]

SimpleRef(i) == [kind |-> "simple", idx |-> i]

CompoundRef == [kind |-> "compound", idx |-> 0]

\* The puzzle object a reference stands for.
PuzzleOf(ref) == IF ref.kind = "simple" THEN simple[ref.idx] ELSE cp

\* The calling program: which one it is, its position, the completion and
\* join calls and the Solver objects it has made, and the puzzle it holds.
Caller(prog) ==
    [prog |-> prog, pc |-> 1, ops |-> 0, solvers |-> 0, ret |-> NoPuzzle]

InitObjects ==
    /\ align = <<>>
    /\ name = <<>>
    /\ made = 0
    /\ simple = <<>>
    /\ cp = EmptyCompound
    /\ solver = NoSolver
    /\ runs = <<>>

\* A client that builds puzzles, calling the builders as it likes.
Init == InitObjects /\ gen = Caller("building")

\* A client that constructs one SimplePuzzle.
InitCount == InitObjects /\ gen = Caller("counting")

\* A client that builds puzzles and then runs solvers on one of them.
InitSolve == InitObjects /\ gen = Caller("solving")

\* The web handler generate_puzzle, before it has chosen a difficulty.
InitGen == InitObjects /\ gen = Caller("idle")

----------------------------------------------------------------------------
(* Operations of the builders *)

\* SimplePuzzle(count, name_set())
SimplePuzzle(count) ==
    /\ \E liar_count \in liar_counts(count) :
       \E d \in pop_names(name_set, count, <<>>) :
          LET n0 == Len(align)
              knaves == [k \in 1 .. liar_count |-> n0 + k]
              knights == [k \in 1 .. (count - liar_count) |-> n0 + liar_count + k]
              al == align \o [k \in 1 .. count |->
                                 IF k <= liar_count THEN "knave" ELSE "knight"]
              nm == name \o [k \in 1 .. count |-> PlainName(d.drawn[k])]
          IN \E islanders \in shuffle(knaves \o knights, al) :
             \E g \in generate_statements(islanders, al, nm, made) :
                /\ align' = al
                /\ name' = nm
                /\ made' = g.made
                /\ simple' = Append(simple,
                                    [count |-> count, islanders |-> islanders,
                                     statements |-> g.stmts,
                                     knights |-> knights, knaves |-> knaves])
    /\ UNCHANGED <<cp, solver, runs>>

\* simple[i].complete_with_match()
complete_with_match(i) ==
    /\ IF Len(simple[i].islanders) < 2 THEN UNCHANGED <<simple, made>>
       ELSE \E pr \in completion_pairs(simple[i]) :
            \E sh \in shuffle_statements(
                          Append(simple[i].statements,
                                 match_statement_for(pr[1], pr[2], align, name, made + 1))) :
               /\ simple' = [simple EXCEPT ![i].statements = sh]
               /\ made' = made + 1
    /\ UNCHANGED <<align, name, cp, solver, runs>>

\* simple[i].complete_with_compound()
complete_with_compound(i) ==
    /\ IF Len(simple[i].islanders) < 2 THEN UNCHANGED <<simple, made>>
       ELSE \E pr \in completion_pairs(simple[i]) :
            \E sh \in shuffle_statements(
                          Append(remove_statement_with(pr[1], pr[2], simple[i].statements),
                                 compound_statement_for(pr[1], pr[2], align, name, made + 1))) :
               /\ simple' = [simple EXCEPT ![i].statements = sh]
               /\ made' = made + 1
    /\ UNCHANGED <<align, name, cp, solver, runs>>

\* simple[i].random_completion()
random_completion(i) ==
    \/ 0 \in random_int(2) /\ complete_with_match(i)
    \/ 1 \in random_int(2) /\ complete_with_compound(i)

\* cp.join(simple[o])
join(o) ==
    /\ cp' = joined(cp, simple[o], o)
    /\ name' = ensure_unique_names(cp'.islanders, name)
    /\ UNCHANGED <<align, made, simple, solver, runs>>

\* cp.join_with_match(simple[o]); random_element raises on the empty list of
\* a compound that has joined nothing, and the call then changes nothing.
join_with_match(o) ==
    /\ cp.islanders # <<>>
    /\ \E a \in random_element(cp.islanders) :
       \E b \in random_element(simple[o].islanders) :
          LET c == joined(cp, simple[o], o)
              nm == ensure_unique_names(c.islanders, name)
          IN /\ cp' = [c EXCEPT !.statements =
                           Append(@, match_statement_for(a, b, align, nm, made + 1))]
             /\ name' = nm
             /\ made' = made + 1
    /\ UNCHANGED <<align, simple, solver, runs>>

\* cp.join_with_compound(simple[o]); as join_with_match on an empty compound.
join_with_compound(o) ==
    /\ cp.islanders # <<>>
    /\ \E a \in random_element(cp.islanders) :
       \E b \in random_element(simple[o].islanders) :
          LET c == joined(cp, simple[o], o)
              nm == ensure_unique_names(c.islanders, name)
          IN /\ cp' = [c EXCEPT !.statements =
                           Append(@, compound_statement_for(a, b, align, nm, made + 1))]
             /\ name' = nm
             /\ made' = made + 1
    /\ UNCHANGED <<align, simple, solver, runs>>

\* cp.random_join(simple[o])
random_join(o) ==
    \/ 0 \in random_int(2) /\ join_with_match(o)
    \/ 1 \in random_int(2) /\ join_with_compound(o)

----------------------------------------------------------------------------
(* Solver runs *)

\* What a finished run leaves: the puzzle it was given and the solver's lists.
RunResult(sv) ==
    [puzzle |-> sv.puzzle, knights |-> sv.knights, knaves |-> sv.knaves,
     printed |-> sv.printed]

\* solver = Solver(puzzle); solver.solve(), run until solve returns or spins.
SolvePuzzle(ref) ==
    /\ solver' = solve(NewSolver(ref), PuzzleOf(ref), align)
    /\ runs' = IF solver'.pc = "done" THEN Append(runs, RunResult(solver')) ELSE runs

----------------------------------------------------------------------------
(* Difficulty presets, called by generate_puzzle (src/app.py) *)

Instr(op, arg) == [op |-> op, arg |-> arg]

\* The calls each preset makes, in order; a and b are simple[1] and simple[2].
Recipe(prog) ==
    CASE prog = "easy0" ->
            << Instr("SimplePuzzle", 2), Instr("complete_with_match", 1),
               Instr("return", SimpleRef(1)) >>
      [] prog = "easy1" ->
            << Instr("SimplePuzzle", 2), Instr("complete_with_compound", 1),
               Instr("return", SimpleRef(1)) >>
      [] prog = "easy2" ->
            << Instr("SimplePuzzle", 3), Instr("random_completion", 1),
               Instr("return", SimpleRef(1)) >>
      [] prog = "medium0" ->
            << Instr("SimplePuzzle", 3), Instr("SimplePuzzle", 1),
               Instr("random_completion", 1), Instr("join", 1),
               Instr("random_join", 2), Instr("return", CompoundRef) >>
      [] prog = "medium1" ->
            << Instr("SimplePuzzle", 3), Instr("complete_with_match", 1),
               Instr("join", 1), Instr("return", CompoundRef) >>
      [] prog = "medium2" ->
            << Instr("SimplePuzzle", 1), Instr("SimplePuzzle", 3),
               Instr("join", 1), Instr("join_with_compound", 2),
               Instr("return", CompoundRef) >>
      [] prog = "hard0" ->
            << Instr("SimplePuzzle", 3), Instr("SimplePuzzle", 3),
               Instr("join", 1), Instr("join_with_compound", 2),
               Instr("return", CompoundRef) >>
      [] prog = "hard1" ->
            << Instr("SimplePuzzle", 3), Instr("SimplePuzzle", 3),
               Instr("complete_with_match", 1), Instr("join", 1),
               Instr("join_with_match", 2), Instr("return", CompoundRef) >>
      [] OTHER -> <<>>

\* The preset is at a call of op.
At(op) ==
    /\ gen.pc <= Len(Recipe(gen.prog))
    /\ Recipe(gen.prog)[gen.pc].op = op

Arg == Recipe(gen.prog)[gen.pc].arg

Advance == gen' = [gen EXCEPT !.pc = @ + 1]

easy ==
    /\ gen.prog = "idle"
    /\ \E choice \in random_int(3) :
          gen' = Caller(<<"easy0", "easy1", "easy2">>[choice + 1])
    /\ UNCHANGED <<align, name, made, simple, cp, solver, runs>>

medium ==
    /\ gen.prog = "idle"
    /\ \E choice \in random_int(3) :
          gen' = Caller(<<"medium0", "medium1", "medium2">>[choice + 1])
    /\ UNCHANGED <<align, name, made, simple, cp, solver, runs>>

hard ==
    /\ gen.prog = "idle"
    /\ \E choice \in random_int(2) :
          gen' = Caller(<<"hard0", "hard1">>[choice + 1])
    /\ UNCHANGED <<align, name, made, simple, cp, solver, runs>>

GenSimplePuzzle == At("SimplePuzzle") /\ SimplePuzzle(Arg) /\ Advance

GenCompleteWithMatch == At("complete_with_match") /\ complete_with_match(Arg) /\ Advance

GenCompleteWithCompound ==
    At("complete_with_compound") /\ complete_with_compound(Arg) /\ Advance

GenRandomCompletion == At("random_completion") /\ random_completion(Arg) /\ Advance

GenJoin == At("join") /\ join(Arg) /\ Advance

GenJoinWithMatch == At("join_with_match") /\ join_with_match(Arg) /\ Advance

GenJoinWithCompound == At("join_with_compound") /\ join_with_compound(Arg) /\ Advance

GenRandomJoin == At("random_join") /\ random_join(Arg) /\ Advance

\* The preset returns its puzzle and generate_puzzle solves it.
GenSolve ==
    /\ At("return")
    /\ gen' = [gen EXCEPT !.pc = @ + 1, !.solvers = @ + 1, !.ret = Arg]
    /\ SolvePuzzle(Arg)
    /\ UNCHANGED <<align, name, made, simple, cp>>

NextGen ==
    \/ easy
    \/ medium
    \/ hard
    \/ GenSimplePuzzle
    \/ GenCompleteWithMatch
    \/ GenCompleteWithCompound
    \/ GenRandomCompletion
    \/ GenJoin
    \/ GenJoinWithMatch
    \/ GenJoinWithCompound
    \/ GenRandomJoin
    \/ GenSolve

SpecGen == InitGen /\ [][NextGen]_vars

----------------------------------------------------------------------------
(* Clients *)

IsClient == gen.prog \in {"building", "solving"}

IslanderBudget == IF gen.prog = "solving" THEN MaxSolveIslanders ELSE MaxIslanders

OpsBudget == IF gen.prog = "solving" THEN MaxSolveOps ELSE MaxOps

\* puzzle = SimplePuzzle(count), the only call of the counting client
CountSimplePuzzle ==
    /\ gen.prog = "counting"
    /\ simple = <<>>
    /\ \E count \in 1 .. MaxCount : SimplePuzzle(count)
    /\ UNCHANGED gen

\* The client may call a builder: it has made no solver yet.
CanBuild == IsClient /\ solver.pc = "none"

CanOperate == CanBuild /\ gen.ops < OpsBudget

Operated == gen' = [gen EXCEPT !.ops = @ + 1]

ClientSimplePuzzle ==
    /\ CanBuild
    /\ \E count \in 1 .. (IslanderBudget - Len(align)) : SimplePuzzle(count)
    /\ UNCHANGED gen

ClientCompleteWithMatch ==
    CanOperate /\ Operated /\ \E i \in DOMAIN simple : complete_with_match(i)

ClientCompleteWithCompound ==
    CanOperate /\ Operated /\ \E i \in DOMAIN simple : complete_with_compound(i)

ClientRandomCompletion ==
    CanOperate /\ Operated /\ \E i \in DOMAIN simple : random_completion(i)

ClientJoin ==
    CanOperate /\ Operated /\ \E o \in DOMAIN simple : join(o)

ClientJoinWithMatch ==
    CanOperate /\ Operated /\ \E o \in DOMAIN simple : join_with_match(o)

ClientJoinWithCompound ==
    CanOperate /\ Operated /\ \E o \in DOMAIN simple : join_with_compound(o)

ClientRandomJoin ==
    CanOperate /\ Operated /\ \E o \in DOMAIN simple : random_join(o)

\* The puzzles the client can hand to a solver.
Puzzles == {SimpleRef(i) : i \in DOMAIN simple} \cup {CompoundRef}

\* solver = Solver(puzzle): the first solver fixes the puzzle, each later
\* one is a fresh Solver for the same puzzle.
ClientSolver ==
    /\ gen.prog = "solving"
    /\ solver.pc \in {"none", "done"}
    /\ gen.solvers < MaxRuns
    /\ \E ref \in Puzzles :
          /\ gen.solvers > 0 => ref = gen.ret
          /\ gen' = [gen EXCEPT !.solvers = @ + 1, !.ret = ref]
          /\ solver' = NewSolver(ref)
    /\ UNCHANGED <<align, name, made, simple, cp, runs>>

\* solver.solve() advances by one step.
SolverStep ==
    /\ gen.prog = "solving"
    /\ solver.pc \notin {"none", "done"}
    /\ solver' = solve_step(solver, PuzzleOf(solver.puzzle), align)
    /\ runs' = IF solver'.pc = "done" THEN Append(runs, RunResult(solver')) ELSE runs
    /\ UNCHANGED <<align, name, made, simple, cp, gen>>

Next ==
    \/ ClientSimplePuzzle
    \/ ClientCompleteWithMatch
    \/ ClientCompleteWithCompound
    \/ ClientRandomCompletion
    \/ ClientJoin
    \/ ClientJoinWithMatch
    \/ ClientJoinWithCompound
    \/ ClientRandomJoin

Spec == Init /\ [][Next]_vars

NextSolve ==
    \/ ClientSimplePuzzle
    \/ ClientCompleteWithMatch
    \/ ClientCompleteWithCompound
    \/ ClientRandomCompletion
    \/ ClientJoin
    \/ ClientJoinWithMatch
    \/ ClientJoinWithCompound
    \/ ClientRandomJoin
    \/ ClientSolver
    \/ SolverStep

\* solve runs on once it is called.
SpecSolve == InitSolve /\ [][NextSolve]_vars /\ WF_vars(SolverStep)

NextCount == CountSimplePuzzle

SpecCount == InitCount /\ [][NextCount]_vars

----------------------------------------------------------------------------
(* Properties of the puzzles the presets return *)

\* The puzzle generate_puzzle holds once the preset has returned.
Returned == PuzzleOf(gen.ret)

HasReturned == gen.ret # NoPuzzle

\* C1: for every puzzle a preset returns, Solver.solve finishes with its
\* knights set-equal to the puzzle's knights and its knaves set-equal to the
\* puzzle's knaves, so that every islander is resolved and none misplaced.
RoundTrip ==
    HasReturned =>
        /\ solver.pc = "done"
        /\ Range(solver.knights) = Range(Returned.knights)
        /\ Range(solver.knaves) = Range(Returned.knaves)
        /\ Range(solver.knights) \cup Range(solver.knaves) = Range(Returned.islanders)
        /\ solver.printed = "correct"

\* A hard puzzle of six islanders of both classes has been solved, pass 2
\* having had statements to resolve.
RoundTripWitness ==
    /\ HasReturned
    /\ gen.prog = "hard1"
    /\ solver.pc = "done"
    /\ Len(solver.type_statements) >= 3
    /\ Len(solver.knights) >= 2
    /\ Len(solver.knaves) >= 2
    /\ Len(solver.knights) + Len(solver.knaves) = 6

\* What statement s says is true under the assignment t of types.
Holds(s, t) ==
    CASE s.kind = "Accusation" -> t[s.target] = "knave"
      [] s.kind = "Affirmation" -> t[s.target] = "knight"
      [] s.kind = "Same" -> t[s.source] = t[s.target]
      [] s.kind = "Different" -> t[s.source] # t[s.target]
      [] s.kind = "Disjoint" -> t[s.target] = s.text.says \/ t[s.source] = "knave"
      [] s.kind = "Joint" -> t[s.target] = s.text.says /\ t[s.source] = "knave"

\* Under t every statement of p is true exactly when its speaker is a knight.
Consistent(p, t) ==
    \A i \in DOMAIN p.statements :
        Holds(p.statements[i], t) <=> (t[p.statements[i].source] = "knight")

GroundTruth(p) ==
    [x \in Range(p.islanders) |-> IF InList(x, p.knights) THEN "knight" ELSE "knave"]

Solutions(p) ==
    {t \in [Range(p.islanders) -> {"knight", "knave"}] : Consistent(p, t)}

\* C2: for every puzzle a preset returns, the ground truth is the one and
\* only assignment of types under which every statement is true exactly
\* when its speaker is a knight.
UniqueSolution ==
    HasReturned => Solutions(Returned) = {GroundTruth(Returned)}

\* A returned puzzle of at least four islanders, knights and knaves among
\* them, with statements of both families.
UniqueSolutionWitness ==
    /\ HasReturned
    /\ Len(Returned.islanders) >= 4
    /\ Returned.knights # <<>>
    /\ Returned.knaves # <<>>
    /\ \E i \in DOMAIN Returned.statements : IsTypeStatement(Returned.statements[i])
    /\ \E i \in DOMAIN Returned.statements : ~IsTypeStatement(Returned.statements[i])
    /\ GroundTruth(Returned) \in Solutions(Returned)

\* The islanders of p that the statements of p link to an islander of S.
Linked(p, S) ==
    {x \in Range(p.islanders) :
        \E i \in DOMAIN p.statements :
            \/ p.statements[i].source \in S /\ p.statements[i].target = x
            \/ p.statements[i].target \in S /\ p.statements[i].source = x}

RECURSIVE Component(_, _)
Component(p, S) ==
    IF Linked(p, S) \subseteq S THEN S ELSE Component(p, S \cup Linked(p, S))

\* The statement graph of p is one component holding all its islanders.
Connected(p) ==
    /\ p.islanders # <<>>
    /\ Component(p, {p.islanders[1]}) = Range(p.islanders)

\* C3: for every puzzle a preset returns, the undirected graph of islanders
\* and statements has exactly one connected component.
StatementGraphConnected == HasReturned => Connected(Returned)

\* A compound of two simple puzzles has been returned, joined by a bridging
\* statement, after a compound completion took a statement out of a part.
StatementGraphConnectedWitness ==
    /\ HasReturned
    /\ gen.prog = "medium0"
    /\ Len(cp.puzzles) = 2
    /\ \E i \in DOMAIN simple[1].statements :
          simple[1].statements[i].kind \in {"Disjoint", "Joint"}
    /\ Connected(Returned)

----------------------------------------------------------------------------
(* Properties of the solver *)

\* The puzzle the current solver was given.
Solving == PuzzleOf(solver.puzzle)

\* C4: Solver.solve terminates on every puzzle, also on one whose
\* Accusation and Affirmation statements can never be resolved: once called,
\* solve returns.
SolveTerminates == (solver.pc = "pass1") ~> (solver.pc = "done")

\* Pass 1 is about to apply a statement of the given kind.
Applies(kind) ==
    /\ solver.pc = "pass1"
    /\ solver.i <= Len(Solving.statements)
    /\ Solving.statements[solver.i].kind = kind

\* After the step, the target of the statement applied is in the solver list
\* of its alignment.
TargetFiled ==
    LET tgt == Solving.statements[solver.i].target
    IN IF is_knight(align, tgt) THEN InList(tgt, solver'.knights)
       ELSE InList(tgt, solver'.knaves)

\* A puzzle of one knight and one knave whose only statement is a compound
\* statement of one about the other.
TwoIslanderCompound(p) ==
    /\ Len(p.islanders) = 2
    /\ Len(p.knights) = 1
    /\ Len(p.knaves) = 1
    /\ Len(p.statements) = 1
    /\ p.statements[1].kind \in {"Disjoint", "Joint"}
    /\ {p.statements[1].source, p.statements[1].target} = Range(p.islanders)

\* C8: applying a Disjoint statement in pass 1 puts its source in the
\* solver's knights, applying a Joint statement puts its source in the
\* solver's knaves, and either puts the target in the list of the target's
\* alignment; a solver that has finished a two-islander puzzle of one knight
\* and one knave with one compound statement has resolved both correctly.
CompoundSolve ==
    /\ [][(Applies("Disjoint") =>
              /\ InList(Solving.statements[solver.i].source, solver'.knights)
              /\ TargetFiled)
          /\ (Applies("Joint") =>
              /\ InList(Solving.statements[solver.i].source, solver'.knaves)
              /\ TargetFiled)]_vars
    /\ [](solver.pc = "done" /\ TwoIslanderCompound(Solving) =>
             /\ solver.knights = Solving.knights
             /\ solver.knaves = Solving.knaves)

\* A solver has finished a two-islander puzzle whose only statement is the
\* knave's Joint statement about the knight.
CompoundSolveWitness ==
    /\ solver.pc = "done"
    /\ TwoIslanderCompound(Solving)
    /\ Solving.statements[1].kind = "Joint"
    /\ Len(solver.knights) = 1
    /\ Len(solver.knaves) = 1

----------------------------------------------------------------------------
(* Properties of the builders *)

\* The puzzle objects that exist.
AllPuzzles == {simple[i] : i \in DOMAIN simple} \cup {cp}

NoDuplicates(lst) == \A i, j \in DOMAIN lst : lst[i] = lst[j] => i = j

\* C5: after any sequence of joins the names of the islanders of the
\* compound are pairwise distinct.
UniqueNames ==
    \A i, j \in DOMAIN cp.islanders :
        i # j => name[cp.islanders[i]] # name[cp.islanders[j]]

\* C6: in every puzzle, after construction, completions and joins, the
\* knights and knaves lists are disjoint and together hold exactly the
\* islanders, each once, and each islander keeps the alignment it was
\* created with.
Partition ==
    /\ [](\A p \in AllPuzzles :
             /\ Range(p.knights) \cap Range(p.knaves) = {}
             /\ Range(p.knights) \cup Range(p.knaves) = Range(p.islanders)
             /\ NoDuplicates(p.knights \o p.knaves)
             /\ NoDuplicates(p.islanders)
             /\ \A x \in Range(p.knights) : is_knight(align, x)
             /\ \A x \in Range(p.knaves) : ~is_knight(align, x))
    /\ [][\A x \in DOMAIN align : x \in DOMAIN align' /\ align'[x] = align[x]]_vars

\* The compound holds the islanders of two joined puzzles, knights and
\* knaves among them, and a completion has been made.
PartitionWitness ==
    /\ Len(cp.puzzles) >= 2
    /\ Len(cp.islanders) = 3
    /\ cp.knights # <<>>
    /\ cp.knaves # <<>>
    /\ \E i \in DOMAIN simple :
          \E k \in DOMAIN simple[i].statements :
              ~IsTypeStatement(simple[i].statements[k])

\* C7: a SimplePuzzle of count islanders has exactly one knave when count
\* is 1, from 0 to count - 1 knaves when count is 2 or 3, and from
\* count \div 2 - 1 to count - 2 knaves when count is 4 or more, hence then
\* at least one knight and one knave; knaves and knights are count in all.
KnaveCount ==
    \A i \in DOMAIN simple :
        LET count == simple[i].count
            liars == Len(simple[i].knaves)
        IN /\ count = 1 => liars = 1
           /\ (1 < count /\ count < 4) => (0 <= liars /\ liars < count)
           /\ count >= 4 =>
                /\ (count \div 2) - 1 <= liars
                /\ liars <= count - 2
                /\ liars >= 1
                /\ Len(simple[i].knights) >= 1
           /\ liars + Len(simple[i].knights) = count
           /\ Len(simple[i].islanders) = count

\* A puzzle of five islanders has the most knaves it can have, three.
KnaveCountWitness ==
    \E i \in DOMAIN simple :
        /\ simple[i].count = 5
        /\ Len(simple[i].knaves) = 3
        /\ Len(simple[i].knights) = 2

\* The kind of statement the table gives for a speaker and a target.
TableKind(src, tgt) ==
    IF is_knight(align, src) = is_knight(align, tgt) THEN "Affirmation"
    ELSE "Accusation"

\* C10: statement_for makes an Affirmation for a knight about a knight and
\* for a knave about a knave, an Accusation for a knight about a knave and
\* for a knave about a knight; its source is the speaker, its target the
\* other islander.
StatementTable ==
    /\ \A src, tgt \in DOMAIN align :
          src # tgt =>
             LET s == statement_for(src, tgt, align, name, made + 1)
             IN /\ s.kind = TableKind(src, tgt)
                /\ s.source = src
                /\ s.target = tgt
    /\ \A i \in DOMAIN simple :
          \A k \in DOMAIN simple[i].statements :
              LET s == simple[i].statements[k]
              IN /\ s.kind = TableKind(s.source, s.target)
                 /\ s.source # s.target
                 /\ {s.source, s.target} \subseteq Range(simple[i].islanders)

\* The statements of one puzzle show all four rows of the table.
StatementTableWitness ==
    \E i \in DOMAIN simple :
        \A a, b \in {"knight", "knave"} :
            \E k \in DOMAIN simple[i].statements :
                /\ align[simple[i].statements[k].source] = a
                /\ align[simple[i].statements[k].target] = b

----------------------------------------------------------------------------
(* Properties of the graph utilities *)

\* The statement lists generate_statements may hand to prune_statements for
\* the islanders of the simple puzzles that exist.
PruneInputs ==
    UNION {raw_statements(simple[i].islanders, 1, 0, <<>>, align, name, 0) :
              i \in {k \in DOMAIN simple : Len(simple[k].islanders) >= 2}}

\* s and t are a mutually reciprocal pair.
Reciprocal(s, t) ==
    s.sid # t.sid /\ s.source = t.target /\ s.target = t.source

\* C11: prune_statements keeps exactly one statement of every mutually
\* reciprocal pair of its input and drops the other, and keeps every
\* statement that is in no reciprocal pair.
PruneKeepsOne ==
    \A raw \in PruneInputs :
        LET out == prune_statements(raw)
        IN \A s \in Range(raw) :
              /\ (\A t \in Range(raw) : ~Reciprocal(s, t)) => InList(s, out)
              /\ \A t \in Range(raw) :
                    Reciprocal(s, t) => (InList(s, out) # InList(t, out))

\* The inputs of connected_sets: the islanders of a puzzle that exists, with
\* its statements or with a pruned statement list generate_statements may
\* have had for them.
ComponentInputs ==
    {[islanders |-> p.islanders, statements |-> p.statements] :
        p \in {q \in AllPuzzles : q.islanders # <<>>}}
    \cup
    UNION {{[islanders |-> simple[i].islanders,
             statements |-> prune_statements(raw)] :
               raw \in raw_statements(simple[i].islanders, 1, 0, <<>>, align, name, 0)} :
              i \in {k \in DOMAIN simple : Len(simple[k].islanders) >= 2}}

HasCycle(p) ==
    \E a, b, c \in Range(p.islanders) :
        /\ Cardinality({a, b, c}) = 3
        /\ \A e \in {{a, b}, {b, c}, {a, c}} :
              \E i \in DOMAIN p.statements :
                  {p.statements[i].source, p.statements[i].target} = e

----------------------------------------------------------------------------
(* Properties of the solver's lists *)

\* solve has been called on the current solver and has not returned.
InSolve == solver.pc \notin {"none", "done"}

\* lst is the start of lst2.
IsPrefix(lst, lst2) ==
    Len(lst) <= Len(lst2) /\ SubSeq(lst2, 1, Len(lst)) = lst

\* C13: during Solver.solve the solver's knights and knaves lists start
\* empty and only grow: no step removes an islander from a list or moves one
\* to the other list, and no islander is twice in a list.
ListsOnlyGrow ==
    /\ []((solver.pc = "pass1" /\ solver.i = 1) =>
             (solver.knights = <<>> /\ solver.knaves = <<>>))
    /\ [](NoDuplicates(solver.knights) /\ NoDuplicates(solver.knaves))
    /\ [][InSolve =>
             /\ IsPrefix(solver.knights, solver'.knights)
             /\ IsPrefix(solver.knaves, solver'.knaves)]_vars

\* A run has ended with two knights and a knave found, pass 2 having
\* resolved a statement and two statements having named the same islander.
ListsOnlyGrowWitness ==
    /\ solver.pc = "done"
    /\ Len(solver.knights) >= 2
    /\ Len(solver.knaves) >= 1
    /\ solver.type_statements # <<>>
    /\ \E i, j \in DOMAIN Solving.statements :
          /\ i # j
          /\ ~IsTypeStatement(Solving.statements[i])
          /\ ~IsTypeStatement(Solving.statements[j])
          /\ Solving.statements[i].target = Solving.statements[j].target

----------------------------------------------------------------------------
(* Properties of the completions *)

\* The step is a complete_with_compound of simple[i] that appends a statement.
CompoundCompletion(i) ==
    /\ i \in DOMAIN simple'
    /\ \E k \in DOMAIN simple'[i].statements :
          /\ simple'[i].statements[k].sid = made + 1
          /\ ~IsTypeStatement(simple'[i].statements[k])
          /\ simple'[i].statements[k].kind \in {"Disjoint", "Joint"}

\* The statement the step has constructed, in simple[i].
Appended(i) ==
    CHOOSE t \in Range(simple'[i].statements) : t.sid = made + 1

\* C14: after complete_with_compound on a puzzle of two islanders or more
\* the appended compound statement is the only statement linking its
\* source and target, every earlier statement between the two being
\* removed, and the statements between other pairs are as they were.
CompoundReplaces ==
    [][\A i \in DOMAIN simple :
          CompoundCompletion(i) =>
             LET new == Appended(i)
             IN /\ \A t \in Range(simple'[i].statements) :
                      Links(t, new.source, new.target) => t = new
                /\ \A t \in Range(simple[i].statements) :
                      ~Links(t, new.source, new.target) =>
                          InList(t, simple'[i].statements)
                /\ \A t \in Range(simple'[i].statements) :
                      t # new => InList(t, simple[i].statements)]_vars

----------------------------------------------------------------------------
(* Properties of the statement texts *)

\* C15: in every puzzle a preset returns, also after a join has renamed an
\* islander to resolve a name collision, the text of each statement names
\* the statement's target by the target's current name.
TextNamesTarget ==
    HasReturned =>
        \A i \in DOMAIN Returned.statements :
            Returned.statements[i].text.tname = name[Returned.statements[i].target]

----------------------------------------------------------------------------
(* Soundness of the solver *)

\* The islanders of the solver's puzzle that are in neither solver list.
Unresolved ==
    Range(Solving.islanders) \ (Range(solver.knights) \cup Range(solver.knaves))

\* C16: at every step of Solver.solve on a puzzle made by the builders the
\* solver's knights are among the puzzle's knights and the solver's knaves
\* among the puzzle's knaves, so the two lists are disjoint and validate
\* reports a mismatch only when an islander is unresolved.
SolverSound ==
    /\ Range(solver.knights) \subseteq Range(Solving.knights)
    /\ Range(solver.knaves) \subseteq Range(Solving.knaves)
    /\ \A x \in Range(solver.knights) : is_knight(align, x)
    /\ \A x \in Range(solver.knaves) : ~is_knight(align, x)
    /\ Range(solver.knights) \cap Range(solver.knaves) = {}
    /\ solver.printed = "mismatch" => Unresolved # {}

\* A run on a compound of three islanders has ended in a mismatch, having
\* filed a knight and a knave and left an islander unresolved.
SolverSoundWitness ==
    /\ solver.pc = "done"
    /\ solver.printed = "mismatch"
    /\ solver.puzzle = CompoundRef
    /\ Len(solver.knights) = 1
    /\ Len(solver.knaves) = 1
    /\ Cardinality(Unresolved) = 1

=============================================================================
